---- MODULE Spec2Model ----
(***************************************************************************)
(* A model of fiorix/go-eventsocket (src/eventsocket/eventsocket.go): the  *)
(* header-key normaliser, the command encoder, the Dial handshake, the     *)
(* accept loop and the per-connection demultiplexing task (readLoop /      *)
(* readOne) with the callers that wait on its channels.                    *)
(*                                                                         *)
(* Texts are sequences of one-character strings.                           *)
(***************************************************************************)
EXTENDS Integers, Sequences, FiniteSets, TLC

(***************************************************************************)
(* Bounds of the model.                                                    *)
(***************************************************************************)
\* longest tail appended to a [Vv]ariable_ prefix, and longest short key
MaxTail == 2
MaxShortKey == 3

\* frames the peer writes on one connection, and frames it may have in flight
MaxFrames == 4
MaxInbox == 1
\* calls the tasks of one connection make
MaxCalls == 4

VARIABLES
    proc,       \* the process: "running", "panic" (a goroutine panicked), "exit" (log.Fatal)
    sock,       \* per connection: "none", "open", "closed" (conn.Close was called)
    inbox,      \* per connection: frames written by the peer and not yet read
    nsent,      \* per connection: frames the peer has written
    nEvt,       \* per connection: async-event frames the peer has written
    nRep,       \* per connection: command/reply and api/response frames the peer has written
    wire,       \* per connection: the chunks written to the stream, in order
    rl_pc,      \* per connection: where readLoop stands
    rl_frame,   \* per connection: the frame readOne is working on
    rl_val,     \* per connection: the value readOne is sending on a channel
    rl_cont,    \* per connection: what readOne returns after that send
    evt,        \* per connection: the buffered channel h.evt
    task_pc,    \* per connection and task: "none", "idle", or the call it is blocked in
    ret,        \* per connection and task: what its last call returned
    ncalls,     \* per connection: calls made so far
    evlog,      \* per connection: Event-Sequence of the events ReadEvent returned, in order
    nfatal,     \* per connection: deliveries of a fatal error
    dial_pc,    \* per connection: where Dial stands
    hs,         \* per connection: the reads and writes of Dial, in order
    capIn,      \* capitalize: the key handed to the normaliser
    capOut,     \* capitalize: the results of the successive applications
    getIn,      \* Event.Get: the frame headers that were decoded and the key asked for
    getOut      \* Event.Get: what the call did

capVars == <<capIn, capOut>>
getVars == <<getIn, getOut>>
pureVars == <<capVars, getVars>>
peerVars == <<inbox, nsent, nEvt, nRep>>
rlVars == <<rl_pc, rl_frame, rl_val, rl_cont>>
taskVars == <<task_pc, ret, ncalls>>
dialVars == <<dial_pc, hs>>
connVars == <<proc, sock, peerVars, wire, rlVars, evt, taskVars, evlog, nfatal, dialVars>>

vars == <<connVars, pureVars>>

(***************************************************************************)
(* Characters and texts.                                                   *)
(***************************************************************************)
CR == "\r"
LF == "\n"

LowerLetters == <<"a","b","c","d","e","f","g","h","i","j","k","l","m",
                  "n","o","p","q","r","s","t","u","v","w","x","y","z">>
UpperLetters == <<"A","B","C","D","E","F","G","H","I","J","K","L","M",
                  "N","O","P","Q","R","S","T","U","V","W","X","Y","Z">>

\* bytes.ToLower on one ASCII byte
ToLowerCh(ch) ==
    IF \E i \in 1..26 : UpperLetters[i] = ch
    THEN LowerLetters[CHOOSE i \in 1..26 : UpperLetters[i] = ch]
    ELSE ch

\* if 'a' <= c && c <= 'z' { c -= 'a' - 'A' }
ToUpperCh(ch) ==
    IF \E i \in 1..26 : LowerLetters[i] = ch
    THEN UpperLetters[CHOOSE i \in 1..26 : LowerLetters[i] = ch]
    ELSE ch

ToLower(s) == [i \in 1..Len(s) |-> ToLowerCh(s[i])]

\* all texts over alphabet A of length lo..hi
TextsOver(A, lo, hi) == UNION {[1..n -> A] : n \in lo..hi}

(***************************************************************************)
(* capitalize (header-key normalisation).                                  *)
(***************************************************************************)
ariable_ == <<"a","r","i","a","b","l","e","_">>

\* the loop of capitalize over ns, at (1-based) position n
RECURSIVE capLoop(_, _, _)
capLoop(ns, n, toUpper) ==
    IF n > Len(ns) THEN ns
    ELSE IF toUpper
         THEN capLoop([ns EXCEPT ![n] = ToUpperCh(ns[n])], n + 1, FALSE)
         ELSE capLoop(ns, n + 1, ns[n] = "-" \/ ns[n] = "_")

\* s is non-empty (s[0] of an empty key is an index out of range)
capitalize(s) ==
    IF s[1] = "_" THEN s
    ELSE LET ns == ToLower(s) IN
         IF Len(s) > 9 /\ SubSeq(s, 2, 9) = ariable_
         THEN [ns EXCEPT ![1] = "V"]
         ELSE capLoop(ns, 1, TRUE)

(***************************************************************************)
(* strings and strconv helpers.                                            *)
(***************************************************************************)
\* strings.IndexAny(s, chars): the 0-based index of the first character of s
\* that is in chars, -1 when there is none
IndexAny(s, chars) ==
    IF \E i \in 1..Len(s) : s[i] \in chars
    THEN (CHOOSE i \in 1..Len(s) : s[i] \in chars /\ \A j \in 1..(i - 1) : s[j] \notin chars) - 1
    ELSE -1

Digits == <<"0","1","2","3","4","5","6","7","8","9">>
IsDigit(ch) == \E i \in 1..10 : Digits[i] = ch
DigitVal(ch) == (CHOOSE i \in 1..10 : Digits[i] = ch) - 1

RECURSIVE NatVal(_)
NatVal(d) ==
    IF d = <<>> THEN 0
    ELSE NatVal(SubSeq(d, 1, Len(d) - 1)) * 10 + DigitVal(d[Len(d)])

\* strconv.Atoi on a non-empty text: [ok, n]
Atoi(v) ==
    LET signed == v[1] = "+" \/ v[1] = "-"
        d == IF signed THEN Tail(v) ELSE v
    IN  IF d # <<>> /\ \A i \in 1..Len(d) : IsDigit(d[i])
        THEN [ok |-> TRUE, n |-> IF v[1] = "-" THEN 0 - NatVal(d) ELSE NatVal(d)]
        ELSE [ok |-> FALSE, n |-> 0]

\* s[n:] of Go, for 0 <= n <= len(s)
DropFirst(s, n) == SubSeq(s, n + 1, Len(s))

(***************************************************************************)
(* Frames on the wire, events and errors.                                  *)
(*                                                                         *)
(* A frame is what the peer writes: bad (the header block cannot be read:  *)
(* the stream closed or the block is malformed), the Content-Type, the     *)
(* Content-Length text ("" when absent), the Reply-Text ("" when absent),  *)
(* the bytes that follow the header block, and what those bytes parse to   *)
(* when they are a nested frame (inner) or a JSON object (json). seq is    *)
(* the frame's place among the frames of its class (async events, or       *)
(* command/api replies) the peer has written.                              *)
(***************************************************************************)
Nil == [kind |-> "nil"]
NoInner == [bad |-> FALSE, clen |-> <<>>, body |-> <<>>]
NoJson == [ok |-> FALSE, body |-> "absent"]

Frame(ct, clen, reply, body) ==
    [bad |-> FALSE, ct |-> ct, clen |-> clen, reply |-> reply, body |-> body,
     inner |-> NoInner, json |-> NoJson, seq |-> 0]

ReplyOK == <<"+", "O", "K">>
ReplyAccepted == <<"+", "O", "K", " ", "a", "c", "c", "e", "p", "t", "e", "d">>
ReplyErr == <<"-", "E", "R", "R", " ", "n", "o", " ", "s", "u", "c", "h", " ", "c", "h", "a", "n", "n", "e", "l">>
ReplyErrShort == <<"-", "E", "R", "R">>
ReplyPct == <<"%", "2", "B", "O", "K">>
ReplyDenied == <<"-", "E", "R", "R", " ", "i", "n", "v", "a", "l", "i", "d">>
NineBytes == <<"H", "e", "l", "l", "o", ":", "1", "\n", "\n">>

FBad == [Frame("", <<>>, <<>>, <<>>) EXCEPT !.bad = TRUE]
FCmdOK == Frame("command/reply", <<>>, ReplyOK, <<>>)
FCmdErr == Frame("command/reply", <<>>, ReplyErr, <<>>)
FCmdErrShort == Frame("command/reply", <<>>, ReplyErrShort, <<>>)
FCmdNoReply == Frame("command/reply", <<>>, <<>>, <<>>)
FCmdPct == Frame("command/reply", <<>>, ReplyPct, <<>>)
FApiOK == Frame("api/response", <<"3">>, <<>>, ReplyOK)
FApiErr == Frame("api/response", <<"2", "0">>, <<>>, ReplyErr)
FApiNoBody == Frame("api/response", <<>>, <<>>, <<>>)
FEvtPlain == Frame("text/event-plain", <<"9">>, <<>>, NineBytes)
FEvtPlainBad == [FEvtPlain EXCEPT !.inner = [bad |-> TRUE, clen |-> <<>>, body |-> <<>>]]
FEvtJson == [Frame("text/event-json", <<"9">>, <<>>, NineBytes) EXCEPT !.json = [ok |-> TRUE, body |-> "string"]]
FEvtJsonBad == Frame("text/event-json", <<"9">>, <<>>, NineBytes)
FDisconnect == Frame("text/disconnect-notice", <<>>, <<>>, <<>>)
FBadLength == Frame("command/reply", <<"x">>, ReplyOK, <<>>)
FNegLength == Frame("command/reply", <<"-", "1">>, ReplyOK, <<>>)
FShortBody == Frame("api/response", <<"2", "0">>, <<>>, ReplyOK)
FUnsupported == Frame("text/xml", <<>>, <<>>, <<>>)
FAuthRequest == Frame("auth/request", <<>>, <<>>, <<>>)
FAccepted == Frame("command/reply", <<>>, ReplyAccepted, <<>>)
FDenied == Frame("command/reply", <<>>, ReplyDenied, <<>>)

EventTypes == {"text/event-plain", "text/event-json", "text/disconnect-notice"}
ReplyTypes == {"command/reply", "api/response"}

\* type Event: the decoded frame handed to a consumer
Event(f, body) == [kind |-> "event", ct |-> f.ct, seq |-> f.seq, body |-> body]

\* an error value; fatal errors carry the name of what failed, a -E error its text
FatalErr(what) == [kind |-> "error", fatal |-> TRUE, what |-> what, msg |-> <<>>]
errorsNew(msg) == [kind |-> "error", fatal |-> FALSE, what |-> "protocol", msg |-> msg]
errInvalidCommand == [kind |-> "error", fatal |-> FALSE, what |-> "invalid command", msg |-> <<>>]
errClosedWrite == [kind |-> "error", fatal |-> FALSE, what |-> "write", msg |-> <<>>]

(***************************************************************************)
(* readOne as a function of the frame it reads: which channel it sends on  *)
(* (ch), the value, and what it returns after the send. ch "panic" is a    *)
(* run-time panic of the goroutine, ch "exit" is log.Fatal.                *)
(***************************************************************************)
SendOn(ch, val, cont) == [ch |-> ch, val |-> val, cont |-> cont]
Panics == SendOn("panic", Nil, FALSE)

\* h.err <- err; return false
FatalKeepsReading(what) == SendOn("err", FatalErr(what), TRUE)
Fatal(what) == SendOn("err", FatalErr(what), FALSE)

\* Content-Length handling: strconv.Atoi, make([]byte, length), io.ReadFull
readBody(clen, bytes) ==
    IF clen = <<>> THEN [st |-> "ok", body |-> <<>>]
    ELSE LET a == Atoi(clen) IN
         IF ~a.ok THEN [st |-> "atoi", body |-> <<>>]
         ELSE IF a.n < 0 THEN [st |-> "panic", body |-> <<>>]
         ELSE IF Len(bytes) < a.n THEN [st |-> "short", body |-> <<>>]
         ELSE [st |-> "ok", body |-> SubSeq(bytes, 1, a.n)]

\* case "command/reply"
readCommandReplyToEvt(f, body) == SendOn("evt", Event(f, body), TRUE)
readCommandReply(f, body) ==
    IF Len(f.reply) < 2 THEN Panics
    ELSE IF SubSeq(f.reply, 1, 2) = <<"-", "E">>
         THEN IF Len(f.reply) < 5 THEN Panics
              ELSE SendOn("err", errorsNew(DropFirst(f.reply, 5)), TRUE)
         ELSE SendOn("cmd", Event(f, body), TRUE)

\* case "api/response"
readApiResponse(f, body) ==
    IF Len(body) < 2 THEN Panics
    ELSE IF SubSeq(body, 1, 2) = <<"-", "E">>
         THEN IF Len(body) < 5 THEN Panics
              ELSE SendOn("err", errorsNew(DropFirst(body, 5)), TRUE)
         ELSE SendOn("api", Event(f, body), TRUE)

\* case "text/event-plain": the body is a frame of its own
readEventPlain(f) ==
    IF f.inner.bad THEN Fatal("nested header")
    ELSE LET rb == readBody(f.inner.clen, f.inner.body) IN
         CASE rb.st = "ok" -> SendOn("evt", Event(f, rb.body), TRUE)
           [] rb.st = "panic" -> Panics
           [] OTHER -> Fatal(rb.st)

\* case "text/event-json": only a string _body becomes the body (a JSON
\* number decodes to float64, which is not the int of the type switch)
readEventJson(f) ==
    IF ~f.json.ok THEN Fatal("json")
    ELSE SendOn("evt", Event(f, IF f.json.body = "string" THEN <<"b">> ELSE <<>>), TRUE)

readOne(f) ==
    IF f.bad THEN Fatal("header")
    ELSE LET rb == readBody(f.clen, f.body) IN
         CASE rb.st = "panic" -> Panics
           [] rb.st \in {"atoi", "short"} -> Fatal(rb.st)
           [] OTHER ->
                CASE f.ct = "command/reply" -> readCommandReply(f, rb.body)
                  [] f.ct = "api/response" -> readApiResponse(f, rb.body)
                  [] f.ct = "text/event-plain" -> readEventPlain(f)
                  [] f.ct = "text/event-json" -> readEventJson(f)
                  [] f.ct = "text/disconnect-notice" -> SendOn("evt", Event(f, rb.body), TRUE)
                  [] OTHER -> SendOn("exit", Nil, FALSE)

(***************************************************************************)
(* Connections and the tasks that call into them.                          *)
(***************************************************************************)
Conns == {1, 2}
Tasks == {"t1", "t2"}

\* const eventsBuffer
eventsBuffer == 16

PerConn(v) == [c \in Conns |-> v]

\* the buffered channel h.evt: a send appends, a receive takes the oldest;
\* a send goes through while fewer than eventsBuffer values are queued
chanAlwaysRoom(q) == TRUE
chanHasRoom(q) == Len(q) < eventsBuffer
chanSendFront(q, v) == <<v>> \o q
chanSend(q, v) == Append(q, v)
chanRecv(q) == Head(q)
chanRest(q) == Tail(q)

NoRet == [op |-> "none", val |-> Nil, e0 |-> 0, e1 |-> 0]

\* the async events readOne has decoded so far on c
EvtDecoded(c) == Len(evlog[c]) + Len(evt[c]) + (IF rl_pc[c] = "evt" THEN 1 ELSE 0)

\* what a call returned: val is Nil while it is blocked; e0 and e1 are the
\* events decoded when it was made and when it returned
Ret(c, op, val, e0) == [op |-> op, val |-> val, e0 |-> e0, e1 |-> EvtDecoded(c)]

\* no connection exists yet
NoConnections ==
    /\ proc = "running"
    /\ sock = PerConn("none")
    /\ inbox = PerConn(<<>>)
    /\ nsent = PerConn(0)
    /\ nEvt = PerConn(0)
    /\ nRep = PerConn(0)
    /\ wire = PerConn(<<>>)
    /\ rl_pc = PerConn("none")
    /\ rl_frame = PerConn(Nil)
    /\ rl_val = PerConn(Nil)
    /\ rl_cont = PerConn(TRUE)
    /\ evt = PerConn(<<>>)
    /\ task_pc = PerConn([t \in Tasks |-> "none"])
    /\ ret = PerConn([t \in Tasks |-> NoRet])
    /\ ncalls = PerConn(0)
    /\ evlog = PerConn(<<>>)
    /\ nfatal = PerConn(0)
    /\ dial_pc = PerConn("none")
    /\ hs = PerConn(<<>>)

(***************************************************************************)
(* The peer: it writes a frame on the stream of connection c. Async events *)
(* and a close come at any time; a command/reply or api/response frame     *)
(* answers a command written on the stream.                                *)
(***************************************************************************)
Stamp(c, f) ==
    IF f.bad THEN f
    ELSE IF f.ct \in EventTypes THEN [f EXCEPT !.seq = nEvt[c] + 1]
    ELSE IF f.ct \in ReplyTypes THEN [f EXCEPT !.seq = nRep[c] + 1]
    ELSE f

ServerWrite(c, f, max) ==
    /\ proc = "running"
    /\ sock[c] = "open"
    /\ nsent[c] < max
    /\ Len(inbox[c]) < MaxInbox
    /\ (~f.bad /\ f.ct \in ReplyTypes) => nRep[c] < Len(wire[c])
    /\ inbox' = [inbox EXCEPT ![c] = Append(@, Stamp(c, f))]
    /\ nsent' = [nsent EXCEPT ![c] = @ + 1]
    /\ nEvt' = [nEvt EXCEPT ![c] = IF ~f.bad /\ f.ct \in EventTypes THEN @ + 1 ELSE @]
    /\ nRep' = [nRep EXCEPT ![c] = IF ~f.bad /\ f.ct \in ReplyTypes THEN @ + 1 ELSE @]
    /\ UNCHANGED <<proc, sock, wire, rlVars, evt, taskVars, evlog, nfatal, dialVars, pureVars>>

(***************************************************************************)
(* readLoop: for h.readOne() { }; h.Close()                                *)
(***************************************************************************)
\* readOne up to its channel send: it reads the next frame, or finds the
\* connection closed under it
RlRead(c) ==
    /\ proc = "running"
    /\ rl_pc[c] = "read"
    /\ \/ /\ inbox[c] # <<>>
          /\ LET f == Head(inbox[c])
                 o == readOne(f)
             IN  /\ inbox' = [inbox EXCEPT ![c] = Tail(@)]
                 /\ rl_frame' = [rl_frame EXCEPT ![c] = f]
                 /\ rl_pc' = [rl_pc EXCEPT ![c] = o.ch]
                 /\ rl_val' = [rl_val EXCEPT ![c] = o.val]
                 /\ rl_cont' = [rl_cont EXCEPT ![c] = o.cont]
                 /\ proc' = IF o.ch \in {"panic", "exit"} THEN o.ch ELSE proc
       \/ /\ sock[c] = "closed"
          /\ rl_frame' = [rl_frame EXCEPT ![c] = FBad]
          /\ rl_pc' = [rl_pc EXCEPT ![c] = Fatal("header").ch]
          /\ rl_val' = [rl_val EXCEPT ![c] = Fatal("header").val]
          /\ rl_cont' = [rl_cont EXCEPT ![c] = Fatal("header").cont]
          /\ UNCHANGED <<inbox, proc>>
    /\ UNCHANGED <<sock, nsent, nEvt, nRep, wire, evt, taskVars, evlog, nfatal, dialVars, pureVars>>

\* h.evt <- resp: the buffered channel takes the event when it has room
RlSendEvt(c) ==
    /\ proc = "running"
    /\ rl_pc[c] = "evt"
    /\ chanHasRoom(evt[c])
    /\ evt' = [evt EXCEPT ![c] = chanSend(@, rl_val[c])]
    /\ rl_pc' = [rl_pc EXCEPT ![c] = "read"]
    /\ rl_val' = [rl_val EXCEPT ![c] = Nil]
    /\ rl_frame' = [rl_frame EXCEPT ![c] = Nil]
    /\ UNCHANGED <<proc, sock, peerVars, wire, rl_cont, taskVars, evlog, nfatal, dialVars, pureVars>>

\* h.Close() at the end of readLoop
RlClose(c) ==
    /\ proc = "running"
    /\ rl_pc[c] = "close"
    /\ sock' = [sock EXCEPT ![c] = "closed"]
    /\ rl_pc' = [rl_pc EXCEPT ![c] = "done"]
    /\ UNCHANGED <<proc, peerVars, wire, rl_frame, rl_val, rl_cont, evt, taskVars, evlog, nfatal, dialVars, pureVars>>

\* the send of readOne on an unbuffered channel completes: task t, blocked
\* in op, takes the value; readOne returns rl_cont
RendezvousRepeats(c, t) ==
    /\ ret' = [ret EXCEPT ![c][t] = Ret(c, task_pc[c][t], rl_val[c], @.e0)]
    /\ task_pc' = [task_pc EXCEPT ![c][t] = "idle"]
    /\ nfatal' = [nfatal EXCEPT ![c] = IF rl_val[c].kind = "error" /\ rl_val[c].fatal THEN @ + 1 ELSE @]
    /\ UNCHANGED rlVars

Rendezvous(c, t) ==
    /\ ret' = [ret EXCEPT ![c][t] = Ret(c, task_pc[c][t], rl_val[c], @.e0)]
    /\ task_pc' = [task_pc EXCEPT ![c][t] = "idle"]
    /\ rl_pc' = [rl_pc EXCEPT ![c] = IF rl_cont[c] THEN "read" ELSE "close"]
    /\ rl_val' = [rl_val EXCEPT ![c] = Nil]
    /\ rl_frame' = [rl_frame EXCEPT ![c] = Nil]
    /\ nfatal' = [nfatal EXCEPT ![c] = IF rl_val[c].kind = "error" /\ rl_val[c].fatal THEN @ + 1 ELSE @]
    /\ UNCHANGED rl_cont

(***************************************************************************)
(* The public calls. A call that blocks is two steps: the call up to its   *)
(* select, and the receive that ends it.                                   *)
(***************************************************************************)
CRLFCRLF == <<"\r", "\n", "\r", "\n">>
sendmsg == <<"s", "e", "n", "d", "m", "s", "g">>
content_length == <<"c", "o", "n", "t", "e", "n", "t", "-", "l", "e", "n", "g", "t", "h">>

\* a chunk written to the stream: the call that wrote it, its arguments, the bytes
Chunk(op, arg, bytes) == [op |-> op, arg |-> arg, bytes |-> bytes]

\* a task that holds the Connection may make a call; max bounds the calls
CanCall(c, t, max) ==
    /\ proc = "running"
    /\ task_pc[c][t] = "idle"
    /\ ncalls[c] < max

Returns(c, t, op, val) ==
    /\ ret' = [ret EXCEPT ![c][t] = Ret(c, op, val, EvtDecoded(c))]
    /\ UNCHANGED task_pc

Blocks(c, t, op) ==
    /\ ret' = [ret EXCEPT ![c][t] = Ret(c, op, Nil, EvtDecoded(c))]
    /\ task_pc' = [task_pc EXCEPT ![c][t] = op]

\* the sanity check of Send
SendRejects(command) == IndexAny(command, {CR, LF}) > 0

\* Send up to its select; the result of fmt.Fprintf is not looked at
Send(c, t, command, max) ==
    /\ CanCall(c, t, max)
    /\ ncalls' = [ncalls EXCEPT ![c] = @ + 1]
    /\ IF SendRejects(command)
       THEN /\ Returns(c, t, "Send", errInvalidCommand)
            /\ UNCHANGED wire
       ELSE /\ wire' = [wire EXCEPT ![c] =
                          IF sock[c] = "open"
                          THEN Append(@, Chunk("Send", command, command \o CRLFCRLF))
                          ELSE @]
            /\ Blocks(c, t, "Send")
    /\ UNCHANGED <<proc, sock, peerVars, rlVars, evt, evlog, nfatal, dialVars, pureVars>>

\* select { case err = <-h.err; case ev = <-h.cmd; case ev = <-h.api } of Send
SendSelect(c, t) ==
    /\ proc = "running"
    /\ task_pc[c][t] = "Send"
    /\ rl_pc[c] \in {"err", "cmd", "api"}
    /\ Rendezvous(c, t)
    /\ UNCHANGED <<proc, sock, peerVars, wire, evt, ncalls, evlog, dialVars, pureVars>>

\* the checks of SendMsg on the UUID, the keys and the values
SendMsgRejects(m, uuid) ==
    \/ uuid # <<>> /\ IndexAny(uuid, {CR, LF}) > 0
    \/ \E k \in DOMAIN m :
          \/ IndexAny(k, {CR, LF}) > 0
          \/ m[k] # <<>> /\ IndexAny(m[k], {CR, LF}) > 0

\* the "key: value\n" lines of the fields in ord, a fieldless one for an empty value
RECURSIVE msgLines(_, _)
msgLines(m, ord) ==
    IF ord = <<>> THEN <<>>
    ELSE (IF m[Head(ord)] # <<>>
          THEN Head(ord) \o <<":", " ">> \o m[Head(ord)] \o <<LF>>
          ELSE <<>>) \o msgLines(m, Tail(ord))

\* the buffer SendMsg builds; ord is the order in which range m yields the keys
msgBlock(m, uuid, appData, ord) ==
    sendmsg
    \o (IF uuid # <<>> THEN <<" ">> \o uuid ELSE <<>>)
    \o <<LF>>
    \o msgLines(m, ord)
    \o <<LF>>
    \o (IF content_length \in DOMAIN m /\ m[content_length] # <<>> /\ appData # <<>>
        THEN appData ELSE <<>>)

\* the orders in which the keys of m can be ranged over
KeyOrders(m) ==
    {ord \in [1..Cardinality(DOMAIN m) -> DOMAIN m] :
        \A i, j \in 1..Cardinality(DOMAIN m) : i # j => ord[i] # ord[j]}

\* SendMsg up to its select; a failed write returns its error
SendMsg(c, t, m, uuid, appData, max) ==
    /\ CanCall(c, t, max)
    /\ ncalls' = [ncalls EXCEPT ![c] = @ + 1]
    /\ IF SendMsgRejects(m, uuid)
       THEN /\ Returns(c, t, "SendMsg", errInvalidCommand)
            /\ UNCHANGED wire
       ELSE IF sock[c] # "open"
       THEN /\ Returns(c, t, "SendMsg", errClosedWrite)
            /\ UNCHANGED wire
       ELSE /\ \E ord \in KeyOrders(m) :
                 wire' = [wire EXCEPT ![c] =
                            Append(@, Chunk("SendMsg", [m |-> m, uuid |-> uuid, appData |-> appData],
                                            msgBlock(m, uuid, appData, ord)))]
            /\ Blocks(c, t, "SendMsg")
    /\ UNCHANGED <<proc, sock, peerVars, rlVars, evt, evlog, nfatal, dialVars, pureVars>>

\* select { case err = <-h.err; case ev = <-h.cmd } of SendMsg
SendMsgSelect(c, t) ==
    /\ proc = "running"
    /\ task_pc[c][t] = "SendMsg"
    /\ rl_pc[c] \in {"err", "cmd"}
    /\ Rendezvous(c, t)
    /\ UNCHANGED <<proc, sock, peerVars, wire, evt, ncalls, evlog, dialVars, pureVars>>

\* ReadEvent up to its select
ReadEvent(c, t, max) ==
    /\ CanCall(c, t, max)
    /\ ncalls' = [ncalls EXCEPT ![c] = @ + 1]
    /\ Blocks(c, t, "ReadEvent")
    /\ UNCHANGED <<proc, sock, peerVars, wire, rlVars, evt, evlog, nfatal, dialVars, pureVars>>

\* select { case err = <-h.err; case ev = <-h.evt } of ReadEvent: when both
\* are ready either is taken
ReadEventSelect(c, t) ==
    /\ proc = "running"
    /\ task_pc[c][t] = "ReadEvent"
    /\ \/ /\ rl_pc[c] = "err"
          /\ Rendezvous(c, t)
          /\ UNCHANGED <<evt, evlog>>
       \/ /\ evt[c] # <<>>
          /\ ret' = [ret EXCEPT ![c][t] = Ret(c, "ReadEvent", chanRecv(evt[c]), @.e0)]
          /\ task_pc' = [task_pc EXCEPT ![c][t] = "idle"]
          /\ evt' = [evt EXCEPT ![c] = chanRest(@)]
          /\ evlog' = [evlog EXCEPT ![c] = Append(@, chanRecv(evt[c]).seq)]
          /\ UNCHANGED <<rlVars, nfatal>>
    /\ UNCHANGED <<proc, sock, peerVars, wire, ncalls, dialVars, pureVars>>

\* Close: h.conn.Close()
Close(c, t, max) ==
    /\ CanCall(c, t, max)
    /\ sock[c] = "open"
    /\ ncalls' = [ncalls EXCEPT ![c] = @ + 1]
    /\ sock' = [sock EXCEPT ![c] = "closed"]
    /\ Returns(c, t, "Close", Nil)
    /\ UNCHANGED <<proc, peerVars, wire, rlVars, evt, evlog, nfatal, dialVars, pureVars>>

(***************************************************************************)
(* The connection engine with one accepted connection and two tasks using  *)
(* it: the state ListenAndServe leaves after go h.readLoop(); go fn(h).    *)
(***************************************************************************)
Accepted(c, ts) ==
    /\ sock' = [sock EXCEPT ![c] = "open"]
    /\ rl_pc' = [rl_pc EXCEPT ![c] = "read"]
    /\ task_pc' = [task_pc EXCEPT ![c] = [t \in Tasks |-> IF t \in ts THEN "idle" ELSE "none"]]

CoreFrames == {FCmdOK, FCmdErr, FApiOK, FEvtPlain, FBad}
aCommand == <<"a">>
aMsg == (<<"k">> :> <<"v">>)

Init ==
    /\ proc = "running"
    /\ sock = [c \in Conns |-> IF c = 1 THEN "open" ELSE "none"]
    /\ inbox = PerConn(<<>>)
    /\ nsent = PerConn(0)
    /\ nEvt = PerConn(0)
    /\ nRep = PerConn(0)
    /\ wire = PerConn(<<>>)
    /\ rl_pc = [c \in Conns |-> IF c = 1 THEN "read" ELSE "none"]
    /\ rl_frame = PerConn(Nil)
    /\ rl_val = PerConn(Nil)
    /\ rl_cont = PerConn(TRUE)
    /\ evt = PerConn(<<>>)
    /\ task_pc = [c \in Conns |-> [t \in Tasks |-> IF c = 1 THEN "idle" ELSE "none"]]
    /\ ret = PerConn([t \in Tasks |-> NoRet])
    /\ ncalls = PerConn(0)
    /\ evlog = PerConn(<<>>)
    /\ nfatal = PerConn(0)
    /\ dial_pc = PerConn("none")
    /\ hs = PerConn(<<>>)
    /\ capIn = <<>>
    /\ capOut = <<>>
    /\ getIn = Nil
    /\ getOut = Nil

Next ==
    \/ \E f \in CoreFrames : ServerWrite(1, f, MaxFrames)
    \/ RlRead(1)
    \/ RlSendEvt(1)
    \/ RlClose(1)
    \/ \E t \in Tasks : Send(1, t, aCommand, MaxCalls)
    \/ \E t \in Tasks : SendSelect(1, t)
    \/ \E t \in Tasks : SendMsg(1, t, aMsg, <<>>, <<>>, MaxCalls)
    \/ \E t \in Tasks : SendMsgSelect(1, t)
    \/ \E t \in Tasks : ReadEvent(1, t, MaxCalls)
    \/ \E t \in Tasks : ReadEventSelect(1, t)

Spec == Init /\ [][Next]_vars

\* the scheduler runs every goroutine that can take a step: the demultiplexing
\* task and every select that has a ready case. When the peer writes and when
\* a task makes its next call is up to them.
Fairness ==
    /\ WF_vars(RlRead(1))
    /\ WF_vars(RlSendEvt(1))
    /\ WF_vars(RlClose(1))
    /\ \A t \in Tasks : WF_vars(SendSelect(1, t))
    /\ \A t \in Tasks : WF_vars(SendMsgSelect(1, t))
    /\ \A t \in Tasks : WF_vars(ReadEventSelect(1, t))

FairSpec == Spec /\ Fairness

(***************************************************************************)
(* Properties of the engine.                                               *)
(***************************************************************************)
Seqs(q) == [i \in 1..Len(q) |-> q[i].seq]
UpTo(n) == [i \in 1..n |-> i]
IsEvt(f) == ~f.bad /\ f.ct \in EventTypes
RECURSIVE EvtSeqs(_)
EvtSeqs(q) ==
    IF q = <<>> THEN <<>>
    ELSE (IF IsEvt(Head(q)) THEN <<Head(q).seq>> ELSE <<>>) \o EvtSeqs(Tail(q))

IsReply(v) == v.kind = "event" /\ v.ct \in ReplyTypes
IsProtocolError(v) == v.kind = "error" /\ ~v.fatal /\ v.what = "protocol"
IsFatal(v) == v.kind = "error" /\ v.fatal
Returned(c, t, op) == task_pc[c][t] = "idle" /\ ret[c][t].op = op

\* C1: the async events that arrive while a caller is blocked in Send come
\* out of ReadEvent in their order of arrival, none lost, duplicated or
\* reordered (the events returned, then those buffered, then the one being
\* delivered, then those unread on the stream are events 1, 2, 3, ...), and
\* Send returns the command reply as the peer wrote it.
C1_EventsInOrderReplyIntact ==
    \A c \in Conns :
        /\ evlog[c] \o Seqs(evt[c])
             \o (IF rl_pc[c] = "evt" THEN <<rl_val[c].seq>> ELSE <<>>)
             \o EvtSeqs(inbox[c]) = UpTo(nEvt[c])
        /\ \A t \in Tasks :
              (Returned(c, t, "Send") /\ ret[c][t].val.kind = "event") =>
                  \E f \in {FCmdOK, FApiOK} :
                      ret[c][t].val = Event([f EXCEPT !.seq = ret[c][t].val.seq], f.body)

\* C1 witness: a Send made before any event was decoded returned the command
\* reply after three events had been decoded, and ReadEvent then returned
\* the three in order.
C1_Witness ==
    /\ Returned(1, "t1", "Send")
    /\ ret[1]["t1"].e0 = 0
    /\ ret[1]["t1"].e1 = 3
    /\ ret[1]["t1"].val = Event([FCmdOK EXCEPT !.seq = 1], <<>>)
    /\ evlog[1] = <<1, 2, 3>>

\* C4: the demultiplexing task is never left blocked on a synchronous reply
\* (command/reply or api/response) while a synchronous sender is waiting
\* for the next reply and no waiting sender accepts it.
C4_OneWaitTakesEitherReply ==
    \A c \in Conns :
        (rl_pc[c] \in {"cmd", "api"} /\ \E t \in Tasks : task_pc[c][t] \in {"Send", "SendMsg"}) =>
            \E t \in Tasks :
                \/ task_pc[c][t] = "Send" /\ ENABLED SendSelect(c, t)
                \/ task_pc[c][t] = "SendMsg" /\ ENABLED SendMsgSelect(c, t)

\* C5: a fatal error is delivered at most once; once it is delivered the
\* demultiplexing task holds no frame and no value to deliver, is past its
\* loop (closing, or done with the stream closed), and at most one task holds
\* a fatal error as the result of its call.
C5_FatalOnceThenClosed ==
    \A c \in Conns :
        /\ nfatal[c] <= 1
        /\ nfatal[c] = 1 =>
              /\ rl_pc[c] \in {"close", "done"}
              /\ rl_val[c] = Nil /\ rl_frame[c] = Nil
        /\ rl_pc[c] \in {"close", "done"} => nfatal[c] = 1
        /\ rl_pc[c] = "done" => sock[c] = "closed"
        /\ Cardinality({t \in Tasks : IsFatal(ret[c][t].val)}) <= nfatal[c]

\* C5 witness: the fatal error went to one waiter while another task was
\* still blocked, and the task closed the stream and ended.
C5_Witness ==
    /\ nfatal[1] = 1
    /\ rl_pc[1] = "done"
    /\ sock[1] = "closed"
    /\ IsFatal(ret[1]["t1"].val)
    /\ task_pc[1]["t2"] = "ReadEvent"
    /\ inbox[1] # <<>>

\* C6: once a fatal error has been delivered and the connection is closed,
\* every caller blocked in Send, SendMsg or ReadEvent eventually returns.
C6_BlockedCallersReturnAfterClose ==
    \A t \in Tasks :
        (nfatal[1] = 1 /\ rl_pc[1] = "done" /\ task_pc[1][t] \in {"Send", "SendMsg", "ReadEvent"})
            ~> (task_pc[1][t] = "idle")

\* C8: a -E error that answers a waiting Send or SendMsg is never taken by
\* a ReadEvent blocked on the same connection.
C8_ProtocolErrorGoesToSender ==
    [][\A c \in Conns : \A t \in Tasks :
         (/\ rl_pc[c] = "err"
          /\ IsProtocolError(rl_val[c])
          /\ task_pc[c][t] = "ReadEvent"
          /\ \E u \in Tasks : task_pc[c][u] \in {"Send", "SendMsg"})
         => ~(task_pc'[c][t] = "idle" /\ ret'[c][t].val = rl_val[c])]_vars


(***************************************************************************)
(* Dial: connect, read the auth/request banner, write the auth command,    *)
(* read the reply, start readLoop and return the Connection.               *)
(***************************************************************************)
auth_ == <<"a", "u", "t", "h", " ">>

HsRead(f) == [op |-> "read", frame |-> f]
HsWrite(bytes) == [op |-> "write", frame |-> Nil, bytes |-> bytes]

\* net.Dial and newConnection
DialConnect(c) ==
    /\ proc = "running"
    /\ sock[c] = "none"
    /\ dial_pc[c] = "none"
    /\ \/ /\ dial_pc' = [dial_pc EXCEPT ![c] = "banner"]
          /\ sock' = [sock EXCEPT ![c] = "open"]
       \/ /\ dial_pc' = [dial_pc EXCEPT ![c] = "failed connect"]
          /\ UNCHANGED sock
    /\ UNCHANGED <<proc, peerVars, wire, rlVars, evt, taskVars, evlog, nfatal, hs, pureVars>>

\* m.Get("Content-Type") != "auth/request"
bannerAny(f) == TRUE
bannerOK(f) == f.ct = "auth/request"

\* m.Get("Reply-Text") != "+OK accepted"
replyOK(f) == f.reply = ReplyAccepted

\* the first ReadMIMEHeader of Dial and the check of the banner
DialReadBanner(c) ==
    /\ proc = "running"
    /\ dial_pc[c] = "banner"
    /\ inbox[c] # <<>>
    /\ LET f == Head(inbox[c]) IN
         /\ inbox' = [inbox EXCEPT ![c] = Tail(@)]
         /\ hs' = [hs EXCEPT ![c] = Append(@, HsRead(f))]
         /\ IF f.bad
            THEN /\ sock' = [sock EXCEPT ![c] = "closed"]
                 /\ dial_pc' = [dial_pc EXCEPT ![c] = "failed read"]
            ELSE IF ~bannerOK(f)
            THEN /\ sock' = [sock EXCEPT ![c] = "closed"]
                 /\ dial_pc' = [dial_pc EXCEPT ![c] = "failed errMissingAuthRequest"]
            ELSE /\ dial_pc' = [dial_pc EXCEPT ![c] = "auth"]
                 /\ UNCHANGED sock
    /\ UNCHANGED <<proc, nsent, nEvt, nRep, wire, rlVars, evt, taskVars, evlog, nfatal, pureVars>>

\* fmt.Fprintf(c, "auth %s\r\n\r\n", passwd)
DialWriteAuthStartsLoop(c, passwd) ==
    /\ proc = "running"
    /\ dial_pc[c] = "auth"
    /\ wire' = [wire EXCEPT ![c] = Append(@, Chunk("Dial", passwd, auth_ \o passwd \o CRLFCRLF))]
    /\ hs' = [hs EXCEPT ![c] = Append(@, HsWrite(auth_ \o passwd \o CRLFCRLF))]
    /\ dial_pc' = [dial_pc EXCEPT ![c] = "reply"]
    /\ rl_pc' = [rl_pc EXCEPT ![c] = "read"]
    /\ UNCHANGED <<proc, sock, peerVars, rl_frame, rl_val, rl_cont, evt, taskVars, evlog, nfatal, pureVars>>

DialWriteAuth(c, passwd) ==
    /\ proc = "running"
    /\ dial_pc[c] = "auth"
    /\ wire' = [wire EXCEPT ![c] = Append(@, Chunk("Dial", passwd, auth_ \o passwd \o CRLFCRLF))]
    /\ hs' = [hs EXCEPT ![c] = Append(@, HsWrite(auth_ \o passwd \o CRLFCRLF))]
    /\ dial_pc' = [dial_pc EXCEPT ![c] = "reply"]
    /\ UNCHANGED <<proc, sock, peerVars, rlVars, evt, taskVars, evlog, nfatal, pureVars>>

\* the second ReadMIMEHeader of Dial, the check of the reply, go h.readLoop()
\* and return h: the tasks ts hold the Connection from here on
DialReadReply(c, ts) ==
    /\ proc = "running"
    /\ dial_pc[c] = "reply"
    /\ inbox[c] # <<>>
    /\ LET f == Head(inbox[c]) IN
         /\ inbox' = [inbox EXCEPT ![c] = Tail(@)]
         /\ hs' = [hs EXCEPT ![c] = Append(@, HsRead(f))]
         /\ IF f.bad
            THEN /\ sock' = [sock EXCEPT ![c] = "closed"]
                 /\ dial_pc' = [dial_pc EXCEPT ![c] = "failed read"]
                 /\ UNCHANGED <<rl_pc, task_pc>>
            ELSE IF ~replyOK(f)
            THEN /\ sock' = [sock EXCEPT ![c] = "closed"]
                 /\ dial_pc' = [dial_pc EXCEPT ![c] = "failed errInvalidPassword"]
                 /\ UNCHANGED <<rl_pc, task_pc>>
            ELSE /\ dial_pc' = [dial_pc EXCEPT ![c] = "done"]
                 /\ rl_pc' = [rl_pc EXCEPT ![c] = "read"]
                 /\ task_pc' = [task_pc EXCEPT ![c] = [t \in Tasks |-> IF t \in ts THEN "idle" ELSE "none"]]
                 /\ UNCHANGED sock
    /\ UNCHANGED <<proc, nsent, nEvt, nRep, wire, rl_frame, rl_val, rl_cont, evt, ret, ncalls, evlog, nfatal, pureVars>>

\* bounds of the handshake runs
MaxDialFrames == 4
MaxDialCalls == 2

aPassword == <<"C", "l", "u", "e", "C", "o", "n">>
DialFrames == {FAuthRequest, FAccepted, FDenied, FEvtPlain, FBad, FCmdOK}

InitDial ==
    /\ NoConnections
    /\ capIn = <<>>
    /\ capOut = <<>>
    /\ getIn = Nil
    /\ getOut = Nil

NextDial ==
    \/ DialConnect(1)
    \/ DialReadBanner(1)
    \/ DialWriteAuth(1, aPassword)
    \/ DialReadReply(1, {"t1"})
    \/ \E f \in DialFrames : ServerWrite(1, f, MaxDialFrames)
    \/ RlRead(1)
    \/ RlSendEvt(1)
    \/ RlClose(1)
    \/ Send(1, "t1", aCommand, MaxDialCalls)
    \/ SendSelect(1, "t1")
    \/ SendMsg(1, "t1", aMsg, <<>>, <<>>, MaxDialCalls)
    \/ SendMsgSelect(1, "t1")
    \/ ReadEvent(1, "t1", MaxDialCalls)
    \/ ReadEventSelect(1, "t1")
    \/ Close(1, "t1", MaxDialCalls)

SpecDial == InitDial /\ [][NextDial]_vars

Handshake ==
    <<HsRead(FAuthRequest), HsWrite(auth_ \o aPassword \o CRLFCRLF), HsRead([FAccepted EXCEPT !.seq = 1])>>

HoldsConnection(c) == \E t \in Tasks : task_pc[c][t] # "none"
DialFailed(c) == dial_pc[c] \notin {"none", "banner", "auth", "reply", "done"}

\* C9: Dial returns a Connection and starts the demultiplexing task only
\* after it has read an auth/request frame, then written the auth command,
\* then read a frame whose Reply-Text is "+OK accepted"; when it fails it
\* returns no Connection, starts no task and has closed the stream it had
\* opened, and it has written nothing when the banner was not auth/request.
C9_DialHandshake ==
    \A c \in Conns :
        /\ (rl_pc[c] # "none" \/ HoldsConnection(c) \/ dial_pc[c] = "done") =>
              /\ dial_pc[c] = "done"
              /\ Len(hs[c]) = 3
              /\ hs[c][1].op = "read" /\ ~hs[c][1].frame.bad /\ hs[c][1].frame.ct = "auth/request"
              /\ hs[c][2] = HsWrite(auth_ \o aPassword \o CRLFCRLF)
              /\ hs[c][3].op = "read" /\ ~hs[c][3].frame.bad /\ hs[c][3].frame.reply = ReplyAccepted
        /\ DialFailed(c) =>
              /\ rl_pc[c] = "none"
              /\ ~HoldsConnection(c)
              /\ sock[c] = (IF dial_pc[c] = "failed connect" THEN "none" ELSE "closed")
              /\ (Len(hs[c]) = 1 => wire[c] = <<>>)
              /\ (Len(hs[c]) >= 1 /\ ~hs[c][1].frame.bad /\ hs[c][1].frame.ct # "auth/request") => wire[c] = <<>>

\* C9 witness: the handshake went through, the Connection is in use by a
\* task blocked in Send and the demultiplexing task is delivering its reply.
C9_Witness ==
    /\ dial_pc[1] = "done"
    /\ hs[1] = Handshake
    /\ rl_pc[1] = "cmd"
    /\ task_pc[1]["t1"] = "Send"

(***************************************************************************)
(* Execute and ExecuteUUID: SendMsg with the conventional fields.          *)
(***************************************************************************)
call_command == <<"c", "a", "l", "l", "-", "c", "o", "m", "m", "a", "n", "d">>
execute == <<"e", "x", "e", "c", "u", "t", "e">>
execute_app_name == <<"e", "x", "e", "c", "u", "t", "e", "-", "a", "p", "p", "-", "n", "a", "m", "e">>
execute_app_arg == <<"e", "x", "e", "c", "u", "t", "e", "-", "a", "p", "p", "-", "a", "r", "g">>
event_lock == <<"e", "v", "e", "n", "t", "-", "l", "o", "c", "k">>
true == <<"t", "r", "u", "e">>

Execute(c, t, appName, appArg, lock, max) ==
    SendMsg(c, t,
            (call_command :> execute) @@ (execute_app_name :> appName)
              @@ (execute_app_arg :> appArg) @@ (event_lock :> IF lock THEN true ELSE <<>>),
            <<>>, <<>>, max)

ExecuteUUID(c, t, uuid, appName, appArg, max) ==
    SendMsg(c, t,
            (call_command :> execute) @@ (execute_app_name :> appName)
              @@ (execute_app_arg :> appArg),
            uuid, <<>>, max)

(***************************************************************************)
(* The command encoder over a range of arguments: commands, UUIDs, keys    *)
(* and values with a raw CR or LF in every position, on a connection on    *)
(* which nothing was written yet.                                          *)
(***************************************************************************)
MaxCmdLen == 2

EncCommands == TextsOver({"a", CR, LF}, 1, MaxCmdLen)
EncUUIDs == {<<>>, <<"u">>, <<CR, "u">>, <<"u", LF>>}
EncKeys == {<<"k">>, <<LF, "k">>, <<"k", CR>>, content_length}
EncValues == {<<>>, <<"v">>, <<CR>>, <<"v", LF>>}
EncPayloads == {<<>>, <<"d">>}
EncArgs == {<<>>, <<"p">>, <<LF>>, <<"p", CR>>}
EncMsgs == UNION {[D -> EncValues] : D \in {D \in SUBSET EncKeys : Cardinality(D) \in {1, 2}}}

NextEnc ==
    \/ \E cmd \in EncCommands : wire[1] = <<>> /\ Send(1, "t1", cmd, MaxCalls)
    \/ \E m \in EncMsgs, uuid \in EncUUIDs, appData \in EncPayloads :
          wire[1] = <<>> /\ SendMsg(1, "t1", m, uuid, appData, MaxCalls)
    \/ \E appName \in EncArgs, appArg \in EncArgs, lock \in BOOLEAN :
          wire[1] = <<>> /\ Execute(1, "t1", appName, appArg, lock, MaxCalls)
    \/ \E uuid \in EncUUIDs, appName \in EncArgs, appArg \in EncArgs :
          wire[1] = <<>> /\ ExecuteUUID(1, "t1", uuid, appName, appArg, MaxCalls)
    \/ \E f \in {FCmdOK, FApiOK} : ServerWrite(1, f, MaxFrames)
    \/ RlRead(1)
    \/ SendSelect(1, "t1")
    \/ SendMsgSelect(1, "t1")

SpecEnc == Init /\ [][NextEnc]_vars

HasCRLF(s) == \E i \in 1..Len(s) : s[i] = CR \/ s[i] = LF

\* C2: no command with a raw CR or LF in any position is written by Send,
\* and no block is written by SendMsg whose UUID, a key or a value holds a
\* raw CR or LF in any position.
C2_NothingWrittenWithCRLF ==
    \A c \in Conns : \A i \in 1..Len(wire[c]) :
        LET w == wire[c][i] IN
            /\ w.op = "Send" => ~HasCRLF(w.arg)
            /\ w.op = "SendMsg" =>
                  /\ ~HasCRLF(w.arg.uuid)
                  /\ \A k \in DOMAIN w.arg.m : ~HasCRLF(k) /\ ~HasCRLF(w.arg.m[k])

(***************************************************************************)
(* The decoder over every kind of frame.                                   *)
(***************************************************************************)
MaxDecFrames == 2
MaxDecCalls == 2

DecFrames ==
    {FBad, FCmdOK, FCmdErr, FCmdErrShort, FCmdNoReply, FCmdPct, FApiOK, FApiErr,
     FApiNoBody, FEvtPlain, FEvtPlainBad, FEvtJson, FEvtJsonBad, FDisconnect,
     FBadLength, FNegLength, FShortBody, FUnsupported}

NextDec ==
    \/ \E f \in DecFrames : ServerWrite(1, f, MaxDecFrames)
    \/ RlRead(1)
    \/ RlSendEvt(1)
    \/ RlClose(1)
    \/ \E t \in Tasks : Send(1, t, aCommand, MaxDecCalls)
    \/ \E t \in Tasks : SendSelect(1, t)
    \/ \E t \in Tasks : SendMsg(1, t, aMsg, <<>>, <<>>, MaxDecCalls)
    \/ \E t \in Tasks : SendMsgSelect(1, t)
    \/ \E t \in Tasks : ReadEvent(1, t, MaxDecCalls)
    \/ \E t \in Tasks : ReadEventSelect(1, t)

SpecDec == Init /\ [][NextDec]_vars

\* the text a -E frame carries: the Reply-Text of a command/reply, the body
\* of an api/response
ReplyTextOf(f) == IF f.ct = "command/reply" THEN f.reply ELSE f.body
IsDashE(f) ==
    /\ f # Nil
    /\ ~f.bad
    /\ f.ct \in ReplyTypes
    /\ Len(ReplyTextOf(f)) >= 2
    /\ SubSeq(ReplyTextOf(f), 1, 2) = <<"-", "E">>

\* C3: while readOne works on a command/reply whose Reply-Text begins with -E
\* (or an api/response whose body does) it is sending, to the waiting caller,
\* the error whose message is the text after the first 5 characters, it will
\* return true (the loop goes on, the stream stays open), and the process
\* is running.
C3_DashEIsRecoverable ==
    \A c \in Conns :
        IsDashE(rl_frame[c]) =>
            /\ proc = "running"
            /\ rl_pc[c] = "err"
            /\ rl_val[c] = errorsNew(DropFirst(ReplyTextOf(rl_frame[c]), 5))
            /\ rl_cont[c]
            /\ sock[c] = "open"

(***************************************************************************)
(* ListenAndServe: the accept loop hands every accepted connection its own *)
(* readLoop and its own handler.                                           *)
(***************************************************************************)
MaxSrvFrames == 2
MaxSrvCalls == 2

\* c, err := srv.Accept(); h := newConnection(c); go h.readLoop(); go fn(h)
Accept(c) ==
    /\ proc = "running"
    /\ sock[c] = "none"
    /\ Accepted(c, {"t1"})
    /\ UNCHANGED <<proc, peerVars, wire, rl_frame, rl_val, rl_cont, evt, ret, ncalls, evlog, nfatal, dialVars, pureVars>>

SrvFrames == {FCmdOK, FEvtPlain, FUnsupported, FBad}

InitSrv ==
    /\ NoConnections
    /\ capIn = <<>>
    /\ capOut = <<>>
    /\ getIn = Nil
    /\ getOut = Nil

NextSrv ==
    \/ \E c \in Conns : Accept(c)
    \/ \E c \in Conns : \E f \in SrvFrames : ServerWrite(c, f, MaxSrvFrames)
    \/ \E c \in Conns : RlRead(c)
    \/ \E c \in Conns : RlSendEvt(c)
    \/ \E c \in Conns : RlClose(c)
    \/ \E c \in Conns : Send(c, "t1", aCommand, MaxSrvCalls)
    \/ \E c \in Conns : SendSelect(c, "t1")
    \/ \E c \in Conns : ReadEvent(c, "t1", MaxSrvCalls)
    \/ \E c \in Conns : ReadEventSelect(c, "t1")

SpecSrv == InitSrv /\ [][NextSrv]_vars

IsUnsupported(f) ==
    /\ f # Nil
    /\ ~f.bad
    /\ f.ct \notin ReplyTypes \cup EventTypes

\* C7: a frame of an unsupported Content-Type is a fatal error of its own
\* connection only: readOne is sending a fatal error and will return false,
\* and the process, with every other connection in it, keeps running.
C7_UnsupportedEndsOneConnection ==
    \A c \in Conns : \A d \in Conns \ {c} :
        (IsUnsupported(rl_frame[c]) /\ sock[d] = "open" /\ rl_pc[d] = "read") =>
            /\ proc = "running"
            /\ rl_pc[c] = "err"
            /\ IsFatal(rl_val[c])
            /\ ~rl_cont[c]

(***************************************************************************)
(* Inputs of the normaliser: short keys over a small alphabet, and keys    *)
(* with a variable_ prefix in every letter case followed by a short tail.  *)
(***************************************************************************)
KeyAlphabet == {"a", "B", "v", "-", "_"}
TailAlphabet == {"a", "B", "-", "_"}
variable_ == <<"v">> \o ariable_

\* every spelling of s (a lower-case text) with each letter in either case
RECURSIVE CaseVariants(_)
CaseVariants(s) ==
    IF s = <<>> THEN {<<>>}
    ELSE {<<ch>> \o t : ch \in {s[1], ToUpperCh(s[1])}, t \in CaseVariants(Tail(s))}

CapKeys ==
    TextsOver(KeyAlphabet, 1, MaxShortKey)
    \cup {p \o t : p \in CaseVariants(variable_), t \in TextsOver(TailAlphabet, 1, MaxTail)}

CapInit ==
    /\ capIn \in CapKeys
    /\ capOut = <<>>
    /\ getIn = Nil
    /\ getOut = Nil
    /\ NoConnections

\* apply capitalize to the key, then to its own result
CapApply ==
    /\ Len(capOut) < 2
    /\ capOut' = Append(capOut, capitalize(IF capOut = <<>> THEN capIn ELSE capOut[Len(capOut)]))
    /\ UNCHANGED <<capIn, getVars, connVars>>

CapNext == CapApply

SpecCap == CapInit /\ [][CapNext]_vars

\* C10: header-key normalisation is idempotent, capitalize(capitalize(K)) =
\* capitalize(K) for every non-empty key K, the [Vv]ariable_ prefix in any
\* letter case included.
C10_CapitalizeIdempotent ==
    Len(capOut) = 2 => capOut[2] = capOut[1]

(***************************************************************************)
(* Event headers and Event.Get. A header value is held in an interface{}:  *)
(* its dynamic type and, for a string, its text. copyHeaders fills the     *)
(* header of a plain frame with strings; json.Unmarshal fills the header   *)
(* of a JSON frame with whatever the JSON object holds.                    *)
(***************************************************************************)
GoString(s) == [type |-> "string", val |-> s]
GoFloat64 == [type |-> "float64", val |-> <<>>]
GoNil == [type |-> "nil", val |-> <<>>]

HexDigits == {"0", "1", "2", "3", "4", "5", "6", "7", "8", "9",
              "a", "b", "c", "d", "e", "f", "A", "B", "C", "D", "E", "F"}

\* the byte a %XX escape stands for; the escapes that occur in the inputs
\* are spelled out, "?" stands for any other byte
HexByte(h) ==
    CASE h = <<"2", "B">> -> "+"
      [] h = <<"2", "0">> -> " "
      [] h = <<"2", "5">> -> "%"
      [] OTHER -> "?"

\* url.QueryUnescape: "+" is a space, %XX a byte, a % not followed by two
\* hex digits an error
RECURSIVE unescapeOK(_)
unescapeOK(s) ==
    IF s = <<>> THEN TRUE
    ELSE IF s[1] = "%"
         THEN /\ Len(s) >= 3
              /\ s[2] \in HexDigits
              /\ s[3] \in HexDigits
              /\ unescapeOK(SubSeq(s, 4, Len(s)))
         ELSE unescapeOK(Tail(s))

RECURSIVE unescaped(_)
unescaped(s) ==
    IF s = <<>> THEN <<>>
    ELSE IF s[1] = "%" THEN <<HexByte(SubSeq(s, 2, 3))>> \o unescaped(SubSeq(s, 4, Len(s)))
    ELSE IF s[1] = "+" THEN <<" ">> \o unescaped(Tail(s))
    ELSE <<s[1]>> \o unescaped(Tail(s))

QueryUnescape(s) == [ok |-> unescapeOK(s), val |-> IF unescapeOK(s) THEN unescaped(s) ELSE <<>>]

\* copyHeaders: src maps the keys of the MIME header to their first value.
\* The keys of the inputs stay distinct under capitalize, so the order in
\* which range yields them does not matter.
copyHeaders(src, decode) ==
    [K \in {capitalize(k) : k \in DOMAIN src} |->
        LET k == CHOOSE k \in DOMAIN src : capitalize(k) = K
            u == QueryUnescape(src[k])
        IN  GoString(IF decode /\ u.ok THEN u.val ELSE src[k])]

_body == <<"_", "b", "o", "d", "y">>

\* the header of a text/event-json frame: the keys of the JSON object
\* capitalized, _body taken out when it is not null
jsonHeaders(tmp) ==
    LET H == [K \in {capitalize(k) : k \in DOMAIN tmp} |->
                 tmp[CHOOSE k \in DOMAIN tmp : capitalize(k) = K]]
    IN  IF _body \in DOMAIN H /\ H[_body].type # "nil"
        THEN [K \in DOMAIN H \ {_body} |-> H[K]]
        ELSE H

\* the Header of the Event readOne builds from a frame of Content-Type ct
\* whose headers (plain) or JSON object (json) are src
decodedHeader(ct, src) ==
    IF ct = "text/event-json" THEN jsonHeaders(src)
    ELSE copyHeaders(src, ct = "text/event-plain")

\* return r.Header[key].(string): a map yields the nil interface for a key
\* it does not hold, and a type assertion on anything but a string panics
Get(header, key) ==
    LET v == IF key \in DOMAIN header THEN header[key] ELSE GoNil
    IN  IF v.type = "string"
        THEN [st |-> "returned", val |-> v.val]
        ELSE [st |-> "panic", val |-> <<>>]

(***************************************************************************)
(* Inputs of Get: plain and JSON frames with up to two headers, and a key  *)
(* that is or is not among them.                                           *)
(***************************************************************************)
PlainKeys == {<<"I", "d">>, <<"N">>}
PlainValues == {<<>>, <<"x">>, <<"%", "2", "B">>, <<"%", "z">>}
JsonKeys == {<<"i", "d">>, <<"n">>, _body}
JsonValues == {GoString(<<>>), GoString(<<"x">>), GoFloat64, GoNil}
AskedKeys == {<<"I", "d">>, <<"N">>, <<"M">>, _body}

Maps(K, V) == UNION {[D -> V] : D \in SUBSET K}

GetInputs ==
    {[ct |-> ct, src |-> src, key |-> key] :
        ct \in {"text/event-plain", "text/disconnect-notice"}, src \in Maps(PlainKeys, PlainValues), key \in AskedKeys}
    \cup {[ct |-> "text/event-json", src |-> src, key |-> key] :
            src \in Maps(JsonKeys, JsonValues), key \in AskedKeys}

GetInit ==
    /\ getIn \in GetInputs
    /\ getOut = Nil
    /\ capIn = <<>>
    /\ capOut = <<>>
    /\ NoConnections

\* ev.Get(key) on the decoded Event
GetApply ==
    /\ getOut = Nil
    /\ getOut' = Get(decodedHeader(getIn.ct, getIn.src), getIn.key)
    /\ UNCHANGED <<getIn, capVars, connVars>>

GetNext == GetApply

SpecGet == GetInit /\ [][GetNext]_vars

\* C11: Get never fails: on every decoded Event it returns the text of the
\* header when the key is present with a text value, the empty text when the
\* key is absent, and some text when the value is not a string.
C11_GetNeverFails ==
    getOut # Nil =>
        LET H == decodedHeader(getIn.ct, getIn.src) IN
            /\ getOut.st = "returned"
            /\ (getIn.key \in DOMAIN H /\ H[getIn.key].type = "string") => getOut.val = H[getIn.key].val
            /\ getIn.key \notin DOMAIN H => getOut.val = <<>>

(***************************************************************************)
(* Reading a written sendmsg block back: the command line, then one        *)
(* "key: value" line per field up to the empty line that ends the block.   *)
(***************************************************************************)
HasLF(s) == \E i \in 1..Len(s) : s[i] = LF
LineOf(s) == IF HasLF(s) THEN SubSeq(s, 1, IndexAny(s, {LF})) ELSE s
AfterLine(s) == IF HasLF(s) THEN SubSeq(s, IndexAny(s, {LF}) + 2, Len(s)) ELSE <<>>

RECURSIVE headerLines(_)
headerLines(s) ==
    IF s = <<>> \/ LineOf(s) = <<>> THEN <<>>
    ELSE <<LineOf(s)>> \o headerLines(AfterLine(s))

RECURSIVE TrimLeft(_)
TrimLeft(s) == IF s # <<>> /\ s[1] = " " THEN TrimLeft(Tail(s)) ELSE s

\* a header line split at its first colon
fieldOf(line) ==
    LET i == IndexAny(line, {":"}) IN
        IF i < 0 THEN <<line, <<>>>>
        ELSE <<SubSeq(line, 1, i), TrimLeft(SubSeq(line, i + 2, Len(line)))>>

parsedFields(bytes) ==
    LET ls == headerLines(AfterLine(bytes)) IN {fieldOf(ls[i]) : i \in 1..Len(ls)}

nonEmptyFields(m) == {<<k, m[k]>> : k \in {k \in DOMAIN m : m[k] # <<>>}}

\* C12: the block SendMsg writes has exactly one "key: value" line per field
\* with a non-empty value and none for a field with an empty value: read
\* back as a header block it yields exactly the non-empty fields passed in
\* (so Execute writes an event-lock line only when lock is set).
C12_BlockRoundTrip ==
    \A c \in Conns : \A i \in 1..Len(wire[c]) :
        LET w == wire[c][i] IN
            w.op = "SendMsg" =>
                /\ parsedFields(w.bytes) = nonEmptyFields(w.arg.m)
                /\ Len(headerLines(AfterLine(w.bytes))) = Cardinality(nonEmptyFields(w.arg.m))

(***************************************************************************)
(* Tear-down after a fatal error.                                          *)
(***************************************************************************)
\* C13: whenever the demultiplexing task meets a fatal error the connection
\* eventually is closed and the task has ended, whether or not a caller is
\* waiting or ever calls again.
C13_FatalLeadsToClosed ==
    (rl_pc[1] = "err" /\ IsFatal(rl_val[1])) ~> (rl_pc[1] = "done" /\ sock[1] = "closed")

(***************************************************************************)
(* Synchronous replies of every shape.                                     *)
(***************************************************************************)
\* a command/reply or api/response frame whose body, if any, was read
IsReplyFrame(f) ==
    /\ f # Nil
    /\ ~f.bad
    /\ f.ct \in ReplyTypes
    /\ readBody(f.clen, f.body).st = "ok"

\* C14: a command/reply or api/response frame never crashes the
\* demultiplexing task: when its text begins with -E readOne is sending a
\* protocol error, and otherwise (an absent, empty or one-character text
\* included) it is sending the frame as a command-reply or api-reply event.
C14_RepliesDecodeWithoutCrash ==
    \A c \in Conns :
        IsReplyFrame(rl_frame[c]) =>
            /\ proc = "running"
            /\ IF IsDashE(rl_frame[c])
               THEN rl_pc[c] = "err" /\ IsProtocolError(rl_val[c])
               ELSE /\ rl_pc[c] = (IF rl_frame[c].ct = "command/reply" THEN "cmd" ELSE "api")
                    /\ IsReply(rl_val[c])

(***************************************************************************)
(* Routing of decoded frames to their consumers.                           *)
(***************************************************************************)
\* in this step the call of task t returns a decoded frame
Gets(c, t) ==
    /\ task_pc[c][t] # "idle"
    /\ task_pc'[c][t] = "idle"
    /\ ret'[c][t].val.kind = "event"

\* C15: a decoded frame goes to exactly one consumer, once, on the path of
\* its Content-Type: a command/reply or api/response is handed by the
\* demultiplexing task to one Send or SendMsg and never to ReadEvent, an
\* async event (plain, JSON, disconnect notice) leaves the buffer to one
\* ReadEvent and never to Send or SendMsg, and whenever a frame leaves the
\* task or the buffer exactly one call returns it.
C15_EachFrameToItsConsumer ==
    [][\A c \in Conns :
         /\ \A t \in Tasks :
              Gets(c, t) =>
                  LET v == ret'[c][t].val
                      op == ret'[c][t].op
                  IN  /\ \A u \in Tasks \ {t} : ~Gets(c, u)
                      /\ \/ /\ v.ct \in ReplyTypes
                            /\ op \in {"Send", "SendMsg"}
                            /\ rl_pc[c] = (IF v.ct = "command/reply" THEN "cmd" ELSE "api")
                            /\ rl_val[c] = v
                            /\ rl_val'[c] = Nil
                            /\ evt'[c] = evt[c]
                         \/ /\ v.ct \in EventTypes
                            /\ op = "ReadEvent"
                            /\ evt[c] # <<>>
                            /\ v = chanRecv(evt[c])
                            /\ evt'[c] = chanRest(evt[c])
                            /\ rl_val'[c] = rl_val[c]
         /\ (rl_pc[c] \in {"cmd", "api"} /\ rl_pc'[c] # rl_pc[c]) =>
               \E t \in Tasks : Gets(c, t) /\ ret'[c][t].val = rl_val[c]
         /\ Len(evt'[c]) < Len(evt[c]) =>
               \E t \in Tasks : Gets(c, t) /\ ret'[c][t].val = chanRecv(evt[c])
      ]_vars

\* C15 witness: ReadEvent returned a disconnect notice to one task and Send
\* returned an api/response to the other.
C15_Witness ==
    /\ Returned(1, "t1", "ReadEvent")
    /\ ret[1]["t1"].val.kind = "event"
    /\ ret[1]["t1"].val.ct = "text/disconnect-notice"
    /\ Returned(1, "t2", "Send")
    /\ ret[1]["t2"].val.kind = "event"
    /\ ret[1]["t2"].val.ct = "api/response"

(***************************************************************************)
(* A burst of async events: the peer writes more events than h.evt holds   *)
(* while one task uses the connection, with Send and with ReadEvent.       *)
(***************************************************************************)
MaxBurstFrames == 18
MaxBurstCalls == 2

NextBurst ==
    \/ \E f \in {FEvtPlain, FCmdOK} : ServerWrite(1, f, MaxBurstFrames)
    \/ RlRead(1)
    \/ RlSendEvt(1)
    \/ Send(1, "t1", aCommand, MaxBurstCalls)
    \/ SendSelect(1, "t1")
    \/ ReadEvent(1, "t1", MaxBurstCalls)
    \/ ReadEventSelect(1, "t1")

SpecBurst == Init /\ [][NextBurst]_vars

\* the scheduler runs the demultiplexing task and every select with a ready case
FairBurst ==
    /\ SpecBurst
    /\ WF_vars(RlRead(1))
    /\ WF_vars(RlSendEvt(1))
    /\ WF_vars(SendSelect(1, "t1"))
    /\ WF_vars(ReadEventSelect(1, "t1"))

\* C16: h.evt never holds more than eventsBuffer (16) undelivered events;
\* while it is full the demultiplexing task is blocked on its delivery and
\* reads no further frame, it goes on as soon as there is room, and no event
\* is dropped or overwritten: the events returned, buffered, being delivered
\* and still unread are the events the peer wrote, in order.
C16_BufferBoundedBackpressure ==
    \A c \in Conns :
        /\ Len(evt[c]) <= eventsBuffer
        /\ (rl_pc[c] = "evt" /\ Len(evt[c]) = eventsBuffer) =>
              ~ENABLED RlRead(c) /\ ~ENABLED RlSendEvt(c)
        /\ (rl_pc[c] = "evt" /\ Len(evt[c]) < eventsBuffer /\ proc = "running") =>
              ENABLED RlSendEvt(c)
        /\ evlog[c] \o Seqs(evt[c])
             \o (IF rl_pc[c] = "evt" THEN <<rl_val[c].seq>> ELSE <<>>)
             \o EvtSeqs(inbox[c]) = UpTo(nEvt[c])
        /\ \A i \in 1..Len(evt[c]) : evt[c][i] = Event([FEvtPlain EXCEPT !.seq = evt[c][i].seq], <<>>)

\* C16 witness: the buffer was full with the task blocked on the 17th event,
\* a ReadEvent drained the first, the 17th went in, and the task is blocked
\* again with the 18th while the buffer is full.
C16_Witness ==
    /\ Len(evt[1]) = eventsBuffer
    /\ rl_pc[1] = "evt"
    /\ rl_val[1].seq = eventsBuffer + 2
    /\ evlog[1] = <<1>>

\* C19: a Send of the connection's only consumer returns once the peer has
\* written the reply to its command, however many async events the peer
\* wrote before that reply.
C19_SendReturnsAfterBurst ==
    (task_pc[1]["t1"] = "Send" /\ nRep[1] = Len(wire[1])) ~> (task_pc[1]["t1"] = "idle")

(***************************************************************************)
(* The intended use of the synchronous calls: one task sends one command   *)
(* after another, and the peer answers each command once, in order, with a *)
(* command/reply, an api/response or a -E text; async events come between. *)
(***************************************************************************)
MaxSeqFrames == 5
MaxSeqCalls == 3

SeqFrames == {FCmdOK, FCmdErr, FApiOK, FApiErr, FEvtPlain}

NextSeq ==
    \/ \E f \in SeqFrames : ServerWrite(1, f, MaxSeqFrames)
    \/ RlRead(1)
    \/ RlSendEvt(1)
    \/ Send(1, "t1", aCommand, MaxSeqCalls)
    \/ SendSelect(1, "t1")

SpecSeq == Init /\ [][NextSeq]_vars

RECURSIVE ReplySeqs(_)
ReplySeqs(q) ==
    IF q = <<>> THEN <<>>
    ELSE (IF ~Head(q).bad /\ Head(q).ct \in ReplyTypes THEN <<Head(q).seq>> ELSE <<>>)
         \o ReplySeqs(Tail(q))

\* the frame of Content-Type ct and place seq among the replies
ReplyFrameOf(ct, seq) ==
    [(IF ct = "command/reply" THEN FCmdOK ELSE FApiOK) EXCEPT !.seq = seq]

\* C17: with one task calling Send and the peer answering every command
\* once and in order, at most one command is unanswered, the reply the
\* demultiplexing task delivers is the reply to the Send that is waiting
\* (reply i for Send i), and a Send that returned holds reply i or its -E
\* error with every reply written so far consumed: none is skipped,
\* delivered twice or left for a later Send.
C17_SendGetsItsOwnReply ==
    LET sends == Len(wire[1])
        pending == ReplySeqs(inbox[1])
                     \o (IF rl_pc[1] \in {"err", "cmd", "api"} THEN <<rl_frame[1].seq>> ELSE <<>>)
    IN  /\ sends = ncalls[1]
        /\ sends - nRep[1] \in {0, 1}
        /\ Len(pending) <= 1
        /\ rl_pc[1] \in {"err", "cmd", "api"} =>
              /\ task_pc[1]["t1"] = "Send"
              /\ rl_frame[1].seq = sends
              /\ rl_pc[1] = "err" => rl_val[1] = errorsNew(DropFirst(ReplyTextOf(rl_frame[1]), 5))
              /\ rl_pc[1] # "err" => rl_val[1] = Event(rl_frame[1], rl_frame[1].body)
        /\ pending # <<>> => pending = <<sends>> /\ task_pc[1]["t1"] = "Send"
        /\ Returned(1, "t1", "Send") =>
              /\ nRep[1] = sends
              /\ pending = <<>>
              /\ ret[1]["t1"].val.kind = "event" =>
                    LET v == ret[1]["t1"].val IN v = Event(ReplyFrameOf(v.ct, sends), ReplyFrameOf(v.ct, sends).body)
              /\ ret[1]["t1"].val.kind = "error" => ret[1]["t1"].val = errorsNew(DropFirst(ReplyErr, 5))

\* C17 witness: the third Send returned the third reply, an api/response,
\* after two earlier Sends returned theirs and events came in between.
C17_Witness ==
    /\ ncalls[1] = 3
    /\ Returned(1, "t1", "Send")
    /\ ret[1]["t1"].val = Event([FApiOK EXCEPT !.seq = 3], ReplyOK)
    /\ nEvt[1] = 2

(***************************************************************************)
(* Who reads the stream, and how many demultiplexing tasks there are.      *)
(***************************************************************************)
\* in this step something is read from the stream of c
ReadsStream(c) == Len(inbox'[c]) < Len(inbox[c])

\* in this step task t makes a call on c
Calls(c, t) ==
    /\ task_pc[c][t] = "idle"
    /\ task_pc'[c][t] # "idle" \/ ret'[c][t] # ret[c][t]

\* C18: a Connection has at most one demultiplexing task and it is the only
\* reader of the stream while it runs: the task is started once, by Dial,
\* after the last read of the handshake; a read of the stream is a read of
\* Dial before the task exists or a read of the task afterwards; once the
\* task exists Dial is over; and a call of Send, SendMsg, ReadEvent or Close
\* reads nothing from the stream and starts no task.
C18_OneTaskSoleReader ==
    [][\A c \in Conns :
         /\ rl_pc[c] # "none" =>
               /\ rl_pc'[c] # "none"
               /\ hs'[c] = hs[c]
               /\ dial_pc[c] = "done"
               /\ dial_pc'[c] = "done"
         /\ (rl_pc[c] = "none" /\ rl_pc'[c] # "none") =>
               /\ rl_pc'[c] = "read"
               /\ dial_pc[c] = "reply"
               /\ dial_pc'[c] = "done"
               /\ ReadsStream(c)
         /\ ReadsStream(c) =>
               /\ inbox'[c] = Tail(inbox[c])
               /\ IF rl_pc[c] = "none"
                  THEN /\ dial_pc[c] \in {"banner", "reply"}
                       /\ hs'[c] = Append(hs[c], HsRead(Head(inbox[c])))
                       /\ \A t \in Tasks : task_pc[c][t] = "none"
                  ELSE /\ rl_pc[c] = "read"
                       /\ rl_frame'[c] = Head(inbox[c])
                       /\ task_pc'[c] = task_pc[c]
                       /\ ret'[c] = ret[c]
         /\ \A t \in Tasks :
               Calls(c, t) =>
                   /\ ~ReadsStream(c)
                   /\ rl_pc'[c] = rl_pc[c]
                   /\ rl_frame'[c] = rl_frame[c]
      ]_vars

\* C18 witness: after the handshake of three steps the demultiplexing task
\* has read a frame from the stream while the task holding the Connection
\* is blocked in SendMsg.
C18_Witness ==
    /\ dial_pc[1] = "done"
    /\ Len(hs[1]) = 3
    /\ rl_frame[1] # Nil
    /\ rl_pc[1] = "evt"
    /\ task_pc[1]["t1"] = "SendMsg"

(***************************************************************************)
(* Errors and the events decoded before them.                              *)
(***************************************************************************)
\* C20: ReadEvent returns an error (fatal or -E) only when it has returned
\* every async event decoded before that error: at the step in which a
\* ReadEvent takes an error no event is left in the buffer.
C20_ErrorAfterBufferedEvents ==
    [][\A c \in Conns : \A t \in Tasks :
         (/\ task_pc[c][t] = "ReadEvent"
          /\ task_pc'[c][t] = "idle"
          /\ ret'[c][t].val.kind = "error")
         => evt[c] = <<>>]_vars

====
